---- MODULE Spec2Model ----
(***************************************************************************)
(* Model of prediput's single-select dialog (src/src/select.rs):           *)
(* Select::prompt with its render/input loop, and Decolor::decolored, the  *)
(* escape-sequence stripper behind the alignment width.                    *)
(*                                                                         *)
(* Strings are sequences of one-character strings; ESC stands for the      *)
(* byte 0x1B.  Every character of the model is one grapheme cluster, so    *)
(* graphemes(true).count() is Len.                                         *)
(*                                                                         *)
(* A usize is a record [hi, lo] of its two 32-bit words, each held as the  *)
(* i32 with the same bits (64-bit target), so that the casts of lines      *)
(* 187-201 act on the value's real width.                                  *)
(***************************************************************************)
EXTENDS Integers, Sequences, FiniteSets, TLC

VARIABLES
    built,              \* history: the arguments of Select::new and the builder calls made since, in order
    prompter,           \* the PromptBuilder, then the Prompter: conversion_err_msg, predicates
    line_pc,            \* position of the call in Prompter::prompt or in the function prompt
    line_in,            \* the String input() returned (val of line 76, s of lib.rs line 37)
    line_val,           \* the parsed value (val of line 79)
    pred_i,             \* position of the for of line 80 in predicates (1-based)
    line_out,           \* what the call read and printed, in order
    line_result,        \* what the call returned
    cfg,                \* the Select: default_index, padding, is_aligned, prefix, clear_after_response, options
    earlier,            \* history: whether prompt was called on this Select before the current call
    msg,                \* prompt's argument, the header line
    pc,                 \* position of the call in Select::prompt
    selected_index,     \* local of prompt (usize)
    prefix_char_count,  \* local of prompt
    tail_str,           \* local of decolored
    split_index,        \* local of decolored: position of the introducer in tail_str (1-based)
    s,                  \* local of decolored: the text kept so far
    out,                \* what this invocation did to the terminal, in order
    result              \* what the invocation returned

\* The variables of the line prompts (src/src/prompting.rs and the function prompt of src/src/lib.rs).
lineVars == <<prompter, line_pc, line_in, line_val, pred_i, line_out, line_result>>

\* The Select, the history of its construction and the locals of Select::prompt.
selectVars == <<built, cfg, earlier, msg, pc, selected_index, prefix_char_count, tail_str, split_index, s, out, result>>

vars == <<built, lineVars, cfg, earlier, msg, pc, selected_index, prefix_char_count, tail_str, split_index, s, out, result>>

-----------------------------------------------------------------------------
\* Bounds of the model.

\* Largest number of options of a Select in Spec.
MaxOpts == 4
\* Largest number of keys one invocation of prompt reads.
MaxKeys == 3
\* Largest length of the strings decolored is run on in SpecDecolor.
MaxLen == 4
\* Largest number of options of a Select in SpecAligned.
MaxAlignedOpts == 10
\* Largest number of options of a Select in SpecFrames.
MaxFrameOpts == 3
\* Largest number of builder calls made on a Select in SpecBuild.
MaxCalls == 3
\* Largest number of predicates added to a PromptBuilder.
MaxPreds == 2
\* Largest number of input() calls made by one call of a line prompt.
MaxAttempts == 3

-----------------------------------------------------------------------------
\* Strings.

ESC == "ESC"

Spaces(n) == [k \in 1..n |-> " "]

\* str[from..] of Rust, with 1-based from.
Suffix(str, from) == SubSeq(str, from, Len(str))

\* str.find(c): the position of the first c in str, 0 for None.
Find(str, c) ==
    IF \E i \in 1..Len(str) : str[i] = c
    THEN CHOOSE i \in 1..Len(str) : str[i] = c /\ \A j \in 1..(i - 1) : str[j] # c
    ELSE 0

\* All strings over alphabet of length at most n.
StringsUpTo(alphabet, n) == UNION {[1..k -> alphabet] : k \in 0..n}

-----------------------------------------------------------------------------
\* usize and the casts of the arrow-key arithmetic.

MaxI32 == 2147483647
MinI32 == -MaxI32 - 1

USize(n) == [hi |-> 0, lo |-> n]
UsizeMax == [hi |-> -1, lo |-> -1]

\* A usize below 2^31 as a number (used only where it is known to be one).
IsSmall(v) == v.hi = 0 /\ v.lo >= 0

\* `v as i32`: the low 32 bits.
AsI32(v) == v.lo

\* `r as usize` for an i32 r: sign extension to 64 bits.
I32AsUsize(r) == [hi |-> IF r < 0 THEN -1 ELSE 0, lo |-> r]

\* Whether a + b leaves the i32 range.
AddOverflowsI32(a, b) ==
    \/ b > 0 /\ a > MaxI32 - b
    \/ b < 0 /\ a < MinI32 - b

\* a + b wrapped to 32 bits (what a build without overflow checks computes).
WrappingAddI32(a, b) ==
    IF b > 0 /\ a > MaxI32 - b THEN (a - MaxI32 - 1) + (b - MaxI32 - 1)
    ELSE IF b < 0 /\ a < MinI32 - b THEN (a + MaxI32 + 1) + (b + MaxI32 + 1)
    ELSE a + b

\* Rust's a % n on i32 for n > 0: the remainder has the sign of a.
RemI32(a, n) ==
    LET m == a % n
    IN  IF a >= 0 \/ m = 0 THEN m ELSE m - n

\* (v as u64 + 1) % n for n > 0 and v # usize::MAX, computed modulo n word by word.
U64SuccMod(v, n) ==
    LET p16 == 65536 % n
        p32 == (p16 * p16) % n
        Word(w) == ((w % n) + (IF w < 0 THEN p32 ELSE 0)) % n
    IN  (Word(v.hi) * p32 + Word(v.lo) + 1) % n

-----------------------------------------------------------------------------
\* The terminal operations an invocation performs, as recorded in out.

Println(text) == [op |-> "println", text |-> text, n |-> 0, key |-> "", ok |-> TRUE]
ClearLastLines(n, ok) == [op |-> "clear_last_lines", text |-> <<>>, n |-> n, key |-> "", ok |-> ok]
HideCursor(ok) == [op |-> "hide_cursor", text |-> <<>>, n |-> 0, key |-> "", ok |-> ok]
ShowCursor(ok) == [op |-> "show_cursor", text |-> <<>>, n |-> 0, key |-> "", ok |-> ok]
ReadKeyEv(key, ok) == [op |-> "read_key", text |-> <<>>, n |-> 0, key |-> key, ok |-> ok]

NoResult == [kind |-> "none", value |-> 0, op |-> ""]
OkResult(v) == [kind |-> "Ok", value |-> v, op |-> ""]
ErrResult(op) == [kind |-> "Err", value |-> 0, op |-> op]

\* The number of keys read so far in this invocation.
KeysRead(log) == Cardinality({i \in 1..Len(log) : log[i].op = "read_key" /\ log[i].ok})

-----------------------------------------------------------------------------
\* The inputs: option lists, prefixes, headers and default indexes.

None == [some |-> FALSE, text |-> <<>>]
Some(t) == [some |-> TRUE, text |-> t]

\* SelectOpt::new
SelectOpt(display_text, selected_text, value) ==
    [display_text |-> display_text, selected_text |-> selected_text, value |-> value]

Letters == <<"a", "b", "c", "d", "e", "f", "g", "h", "i", "j", "k", "l">>

DisplayText(i) ==
    IF i = 1 THEN <<"U", "p">>
    ELSE IF i = 2 THEN <<"D", "o", "w", "n">>
    ELSE <<Letters[i]>>

\* The i-th option of the lists used as input: its value is i, and from the
\* third on every second option has a selected_text.
InputOpt(i) ==
    SelectOpt(DisplayText(i),
              IF i >= 3 /\ i % 2 = 1 THEN Some(DisplayText(i) \o <<"!">>) ELSE None,
              i)

InputOptions(n) == [i \in 1..n |-> InputOpt(i)]

OptionLists(maxN) == {InputOptions(n) : n \in 0..maxN}

PlainPrefix == <<">", " ">>
ColoredPrefix == <<ESC, "[", "3", "m", ">", ESC, "[", "m">>
DanglingPrefix == <<"A", "B", ESC>>

Prefixes == {PlainPrefix, ColoredPrefix, DanglingPrefix}

Msgs == {<<"?">>}

\* default_opt takes any usize: the indexes of the list, the first index past
\* it, and values whose low word is not the index's value as an i32.
BigIndexes ==
    { UsizeMax,                             \* 2^64 - 1
      [hi |-> 0, lo |-> -2],                \* 2^32 - 2
      [hi |-> 0, lo |-> MinI32],            \* 2^31
      [hi |-> 0, lo |-> MaxI32] }           \* 2^31 - 1

DefaultIndexes(maxN) == {USize(k) : k \in 0..maxN} \cup BigIndexes

Select(default_index, padding, is_aligned, prefix, clear_after_response, options) ==
    [default_index |-> default_index, padding |-> padding, is_aligned |-> is_aligned,
     prefix |-> prefix, clear_after_response |-> clear_after_response, options |-> options]

\* Select::new with the option list aligned from the start.
SelectNewAligned(selected_prefix, options) ==
    Select(USize(0), 0, TRUE, selected_prefix, FALSE, options)

\* Select::new
SelectNew(selected_prefix, options) ==
    Select(USize(0), 0, FALSE, selected_prefix, FALSE, options)

N == Len(cfg.options)

-----------------------------------------------------------------------------
\* The builder methods of Select (lines 79-131): each consumes the Select
\* and returns it with one field replaced (..self keeps the others).

\* Select::opt
Opt(c, select_opt) == [c EXCEPT !.options = Append(@, select_opt)]

\* Padding that rebuilds the Select from Select::new, losing the default index.
PaddingFromNew(c, num_lines) == [c EXCEPT !.padding = num_lines, !.default_index = USize(0)]

\* Select::padding
Padding(c, num_lines) == [c EXCEPT !.padding = num_lines]

\* Select::prefix
Prefix(c, selected_prefix) == [c EXCEPT !.prefix = selected_prefix]

\* Select::aligned
Aligned(c) == [c EXCEPT !.is_aligned = TRUE]

\* Select::clear_after
ClearAfter(c) == [c EXCEPT !.clear_after_response = TRUE]

\* Select::default_opt
DefaultOpt(c, default_index) == [c EXCEPT !.default_index = default_index]

\* One builder call, as recorded in built.calls: the method and its argument.
Call(op, option, n, text, index) ==
    [op |-> op, option |-> option, n |-> n, text |-> text, index |-> index]

OptCall(o) == Call("opt", o, 0, <<>>, USize(0))
PaddingCall(n) == Call("padding", InputOpt(1), n, <<>>, USize(0))
PrefixCall(x) == Call("prefix", InputOpt(1), 0, x, USize(0))
AlignedCall == Call("aligned", InputOpt(1), 0, <<>>, USize(0))
ClearAfterCall == Call("clear_after", InputOpt(1), 0, <<>>, USize(0))
DefaultOptCall(i) == Call("default_opt", InputOpt(1), 0, <<>>, i)

\* The arguments the builder calls are made with.
OptArgs == {InputOpt(3), InputOpt(4)}
PaddingArgs == {1, 2}
PrefixArgs == {PlainPrefix, ColoredPrefix}
DefaultOptArgs == {USize(3), UsizeMax}

\* A builder call on the Select: cfg becomes what the method returns.
Build(call, c) ==
    /\ pc = "idle"
    /\ Len(built.calls) < MaxCalls
    /\ cfg' = c
    /\ built' = [built EXCEPT !.calls = Append(@, call)]
    /\ UNCHANGED <<lineVars, earlier, msg, pc, selected_index, prefix_char_count, tail_str, split_index, s, out, result>>

BuildOpt == \E o \in OptArgs : Build(OptCall(o), Opt(cfg, o))

BuildPadding == \E n \in PaddingArgs : Build(PaddingCall(n), Padding(cfg, n))

BuildPrefix == \E x \in PrefixArgs : Build(PrefixCall(x), Prefix(cfg, x))

BuildAligned == Build(AlignedCall, Aligned(cfg))

BuildClearAfter == Build(ClearAfterCall, ClearAfter(cfg))

BuildDefaultOpt == \E i \in DefaultOptArgs : Build(DefaultOptCall(i), DefaultOpt(cfg, i))

\* The calls that make c: Select::new(prefix, options), then padding and
\* default_opt, then aligned and clear_after when c has them set.
ChainOf(c) ==
    [prefix |-> c.prefix, options |-> c.options,
     calls |-> <<PaddingCall(c.padding), DefaultOptCall(c.default_index)>>
               \o (IF c.is_aligned THEN <<AlignedCall>> ELSE <<>>)
               \o (IF c.clear_after_response THEN <<ClearAfterCall>> ELSE <<>>)]

-----------------------------------------------------------------------------
\* Decolor::decolored, run by prompt on the prefix (line 145).

\* line 233, an introducer is found: on to the search for its 'm'.
DecoloredFind ==
    /\ pc = "decolored_while"
    /\ Find(tail_str, ESC) # 0
    /\ split_index' = Find(tail_str, ESC)
    /\ pc' = "decolored_if"
    /\ UNCHANGED <<built, lineVars, cfg, earlier, msg, selected_index, prefix_char_count, tail_str, s, out, result>>

\* AfterTerminator with the 'm' left in the text still to parse.
AfterTerminatorKeepsM(split_str, j) == Suffix(split_str, j)

\* The text after the terminator found at position j of split_str.
AfterTerminator(split_str, j) == Suffix(split_str, j + 1)

\* lines 235-240, the introducer has an 'm' after it: keep the text before
\* the introducer and go on after the 'm'.
DecoloredStrip ==
    /\ pc = "decolored_if"
    /\ LET start_str == SubSeq(tail_str, 1, split_index - 1)
           split_str == Suffix(tail_str, split_index)
           split_end_inc_index == Find(split_str, "m")
       IN  /\ split_end_inc_index # 0
           /\ s' = s \o start_str
           /\ tail_str' = AfterTerminator(split_str, split_end_inc_index)
    /\ pc' = "decolored_while"
    /\ UNCHANGED <<built, lineVars, cfg, earlier, msg, selected_index, prefix_char_count, split_index, out, result>>

\* lines 237-241, the introducer has no 'm' after it: the if has no else, so
\* the loop goes round with s and tail_str as they were.
DecoloredUnterminated ==
    /\ pc = "decolored_if"
    /\ Find(Suffix(tail_str, split_index), "m") = 0
    /\ pc' = "decolored_while"
    /\ UNCHANGED <<built, lineVars, cfg, earlier, msg, selected_index, prefix_char_count, tail_str, split_index, s, out, result>>

\* lines 233 and 242-243, no introducer is left: the rest is appended and s
\* returned; line 145 counts its graphemes.
DecoloredReturn ==
    /\ pc = "decolored_while"
    /\ Find(tail_str, ESC) = 0
    /\ s' = s \o tail_str
    /\ prefix_char_count' = Len(s')
    /\ pc' = "print_header"
    /\ UNCHANGED <<built, lineVars, cfg, earlier, msg, selected_index, tail_str, split_index, out, result>>

-----------------------------------------------------------------------------
\* Select::prompt.

\* StartIndex with the index kept from the previous invocation.
StartIndexKept(c, last) == last

\* line 144: the selection index an invocation starts with; last is the
\* value the previous invocation left in its local.
StartIndex(c, last) == c.default_index

\* lines 142-145: the call begins; to_string() of the prefix is handed to decolored.
Prompt ==
    /\ pc \in {"idle", "returned"}
    /\ \E m \in Msgs : msg' = m
    /\ selected_index' = StartIndex(cfg, selected_index)
    /\ tail_str' = cfg.prefix
    /\ s' = <<>>
    /\ split_index' = 0
    /\ prefix_char_count' = 0
    /\ out' = <<>>
    /\ result' = NoResult
    /\ pc' = "decolored_while"
    /\ earlier' = (pc = "returned")
    /\ UNCHANGED <<built, lineVars, cfg>>

\* PrintHeader without the blank lines that reserve room for the rows.
PrintHeaderNoRoom ==
    /\ pc = "print_header"
    /\ out' = out \o [k \in 1..cfg.padding |-> Println(<<>>)] \o <<Println(msg)>>
    /\ pc' = "loop_clear"
    /\ UNCHANGED <<built, lineVars, cfg, earlier, msg, selected_index, prefix_char_count, tail_str, split_index, s, result>>

\* lines 147-156: padding blank lines, the header, one blank line per option.
PrintHeader ==
    /\ pc = "print_header"
    /\ out' = out \o [k \in 1..cfg.padding |-> Println(<<>>)]
                  \o <<Println(msg)>>
                  \o [k \in 1..N |-> Println(<<>>)]
    /\ pc' = "loop_clear"
    /\ UNCHANGED <<built, lineVars, cfg, earlier, msg, selected_index, prefix_char_count, tail_str, split_index, s, result>>

\* Try with the error dropped: the call goes on after a failed operation.
TryAndGoOn(ev, next) ==
    /\ out' = Append(out, ev)
    /\ pc' = next
    /\ result' = result

\* A terminal operation that returns io::Result: op? goes on to next when it
\* succeeds and returns the error from prompt when it fails.
Try(ev, next) ==
    /\ out' = Append(out, ev)
    /\ IF ev.ok
       THEN pc' = next /\ result' = result
       ELSE pc' = "returned" /\ result' = ErrResult(ev.op)

\* line 160
LoopClear ==
    /\ pc = "loop_clear"
    /\ \E ok \in BOOLEAN : Try(ClearLastLines(N, ok), "loop_rows")
    /\ UNCHANGED <<built, lineVars, cfg, earlier, msg, selected_index, prefix_char_count, tail_str, split_index, s>>

\* Row that never uses the selected text of an option.
RowDisplayOnly(c, sel, count, i) ==
    LET o == c.options[i]
    IN  IF sel = USize(i - 1)
        THEN c.prefix \o o.display_text
        ELSE IF c.is_aligned
             THEN Spaces(count) \o o.display_text
             ELSE o.display_text

\* Row padded by the length of the prefix, escape sequences counted.
RowRawWidth(c, sel, count, i) ==
    LET o == c.options[i]
    IN  IF sel = USize(i - 1)
        THEN IF o.selected_text.some
             THEN c.prefix \o o.selected_text.text
             ELSE c.prefix \o o.display_text
        ELSE IF c.is_aligned
             THEN Spaces(Len(c.prefix)) \o o.display_text
             ELSE o.display_text

\* lines 165-176: the row of option i (1-based) when sel is selected.
Row(c, sel, count, i) ==
    LET o == c.options[i]
    IN  IF sel = USize(i - 1)
        THEN IF o.selected_text.some
             THEN c.prefix \o o.selected_text.text
             ELSE c.prefix \o o.display_text
        ELSE IF c.is_aligned
             THEN Spaces(count) \o o.display_text
             ELSE o.display_text

\* PrintRows from the last option to the first.
PrintRowsLastFirst ==
    /\ pc = "loop_rows"
    /\ out' = out \o [i \in 1..N |-> Println(Row(cfg, selected_index, prefix_char_count, N + 1 - i))]
    /\ pc' = "loop_hide"
    /\ UNCHANGED <<built, lineVars, cfg, earlier, msg, selected_index, prefix_char_count, tail_str, split_index, s, result>>

\* lines 163-180: every row, in index order.
PrintRows ==
    /\ pc = "loop_rows"
    /\ out' = out \o [i \in 1..N |-> Println(Row(cfg, selected_index, prefix_char_count, i))]
    /\ pc' = "loop_hide"
    /\ UNCHANGED <<built, lineVars, cfg, earlier, msg, selected_index, prefix_char_count, tail_str, split_index, s, result>>

\* line 182
LoopHide ==
    /\ pc = "loop_hide"
    /\ \E ok \in BOOLEAN : Try(HideCursor(ok), "loop_read")
    /\ UNCHANGED <<built, lineVars, cfg, earlier, msg, selected_index, prefix_char_count, tail_str, split_index, s>>

CanRead == pc = "loop_read" /\ KeysRead(out) < MaxKeys

\* line 185, read_key fails.
ReadKeyFails ==
    /\ CanRead
    /\ Try(ReadKeyEv("", FALSE), "loop_read")
    /\ UNCHANGED <<built, lineVars, cfg, earlier, msg, selected_index, prefix_char_count, tail_str, split_index, s>>

Panic(why) == [kind |-> "panic", value |-> 0, op |-> why]

\* One outcome of an arrow key: the new index, or a panic.
Moved(v) == [panic |-> "", index |-> v]
Aborted(why) == [panic |-> why, index |-> USize(0)]

\* ArrowUpIndex without the "+ len" before the remainder.
ArrowUpNoWrap(sel, n) ==
    IF sel = UsizeMax
    THEN IF n = 0
         THEN {Aborted("overflow"), Moved(UsizeMax)}
         ELSE {Moved(USize(n - 1))}
    ELSE IF n = 0 THEN {Aborted("rem_zero")}
    ELSE {Moved(I32AsUsize(RemI32(WrappingAddI32(AsI32(sel), -1), n)))}

\* lines 187-193: what Arrow-up makes of sel with n options.  Overflow of
\* the i32 and usize arithmetic panics in a build with overflow checks and
\* wraps in a build without; a remainder by zero panics in both.
ArrowUpIndex(sel, n) ==
    IF sel = UsizeMax
    THEN IF n = 0
         THEN {Aborted("overflow"), Moved(UsizeMax)}
         ELSE {Moved(USize(n - 1))}
    ELSE LET a == AsI32(sel)
             ovf == AddOverflowsI32(a, -1) \/ AddOverflowsI32(WrappingAddI32(a, -1), n)
             sum == WrappingAddI32(WrappingAddI32(a, -1), n)
         IN  (IF ovf THEN {Aborted("overflow")} ELSE {})
             \cup (IF n = 0 THEN {Aborted("rem_zero")}
                   ELSE {Moved(I32AsUsize(RemI32(sum, n)))})

\* lines 197-202: what Arrow-down makes of sel with n options.
ArrowDownIndex(sel, n) ==
    IF sel = UsizeMax
    THEN {Moved(USize(0))}
    ELSE IF n = 0 THEN {Aborted("rem_zero")}
    ELSE {Moved(USize(U64SuccMod(sel, n)))}

\* The arm of an arrow key: the key is read and the index moved, or the
\* process aborts.
Arrow(key, outcomes) ==
    /\ CanRead
    /\ out' = Append(out, ReadKeyEv(key, TRUE))
    /\ \E o \in outcomes :
          IF o.panic = ""
          THEN selected_index' = o.index /\ pc' = "loop_clear" /\ result' = result
          ELSE selected_index' = selected_index /\ pc' = "panicked" /\ result' = Panic(o.panic)
    /\ UNCHANGED <<built, lineVars, cfg, earlier, msg, prefix_char_count, tail_str, split_index, s>>

\* lines 185-194
KeyArrowUp == Arrow("ArrowUp", ArrowUpIndex(selected_index, N))

\* lines 185, 196-203
KeyArrowDown == Arrow("ArrowDown", ArrowDownIndex(selected_index, N))

\* KeyOther that puts the selection back on the default option.
KeyOtherToDefault ==
    /\ CanRead
    /\ out' = Append(out, ReadKeyEv("Other", TRUE))
    /\ selected_index' = cfg.default_index
    /\ pc' = "loop_clear"
    /\ UNCHANGED <<built, lineVars, cfg, earlier, msg, prefix_char_count, tail_str, split_index, s, result>>

\* lines 185, 217: any other key.
KeyOther ==
    /\ CanRead
    /\ out' = Append(out, ReadKeyEv("Other", TRUE))
    /\ pc' = "loop_clear"
    /\ UNCHANGED <<built, lineVars, cfg, earlier, msg, selected_index, prefix_char_count, tail_str, split_index, s, result>>

\* options.get(sel) is Some.
InBounds(sel, options) == IsSmall(sel) /\ sel.lo < Len(options)

\* Lookup that returns from prompt instead of aborting.
LookupReturns(c, sel) ==
    IF InBounds(sel, c.options)
    THEN IF c.clear_after_response THEN "confirm_clear" ELSE "confirm_show"
    ELSE "returned"

\* lines 206-209: what the lookup on Enter leads to: the position the call
\* goes on at, or the abort of expect().
Lookup(c, sel) ==
    IF InBounds(sel, c.options)
    THEN IF c.clear_after_response THEN "confirm_clear" ELSE "confirm_show"
    ELSE "panicked"

\* lines 185, 205-211
KeyEnter ==
    /\ CanRead
    /\ out' = Append(out, ReadKeyEv("Enter", TRUE))
    /\ pc' = Lookup(cfg, selected_index)
    /\ result' = IF pc' = "panicked" THEN Panic("expect") ELSE result
    /\ UNCHANGED <<built, lineVars, cfg, earlier, msg, selected_index, prefix_char_count, tail_str, split_index, s>>

\* ConfirmEraseCount without the header line.
ConfirmEraseCountNoHeader(c) == Len(c.options) + c.padding

\* line 212: the lines erased after a confirm.
ConfirmEraseCount(c) == Len(c.options) + c.padding + 1

\* lines 211-213
ConfirmClear ==
    /\ pc = "confirm_clear"
    /\ \E ok \in BOOLEAN : Try(ClearLastLines(ConfirmEraseCount(cfg), ok), "confirm_show")
    /\ UNCHANGED <<built, lineVars, cfg, earlier, msg, selected_index, prefix_char_count, tail_str, split_index, s>>

\* Chosen that returns the first option's value.
ChosenFirst(c, sel) == c.options[1].value

\* line 215: the value returned.
Chosen(c, sel) == c.options[sel.lo + 1].value

\* ConfirmShow that returns the value without showing the cursor.
ConfirmShowSkipped ==
    /\ pc = "confirm_show"
    /\ result' = OkResult(Chosen(cfg, selected_index))
    /\ pc' = "returned"
    /\ UNCHANGED <<built, lineVars, cfg, earlier, msg, selected_index, prefix_char_count, tail_str, split_index, s, out>>

\* lines 214-215
ConfirmShow ==
    /\ pc = "confirm_show"
    /\ \E ok \in BOOLEAN :
          /\ out' = Append(out, ShowCursor(ok))
          /\ result' = IF ok THEN OkResult(Chosen(cfg, selected_index))
                       ELSE ErrResult("show_cursor")
    /\ pc' = "returned"
    /\ UNCHANGED <<built, lineVars, cfg, earlier, msg, selected_index, prefix_char_count, tail_str, split_index, s>>

-----------------------------------------------------------------------------
\* Specifications.

-----------------------------------------------------------------------------
\* The line prompts: input and prompt of src/src/lib.rs, Prompter and
\* PromptBuilder of src/src/prompting.rs, for T an unsigned integer.

\* What a line prompt does on stdout and stdin, in order.
LineEv(op, text, k, ok) == [op |-> op, text |-> text, k |-> k, ok |-> ok]

\* print!("{}", prompt)
PrintPrompt(text) == LineEv("print", text, 0, TRUE)
\* stdout().flush()
Flush(ok) == LineEv("flush", "", 0, ok)
\* stdin.read_line(&mut input): the line read, with its newline.
ReadLine(line, ok) == LineEv("read_line", line, 0, ok)
\* println!("{}", text)
PrintlnLine(text) == LineEv("println", text, 0, TRUE)
\* p.validate(&val) of the k-th predicate
ValidateEv(k, ok) == LineEv("validate", "", k, ok)

Whitespace == {" ", "\n"}

RECURSIVE TrimStart(_)
TrimStart(str) ==
    IF str # <<>> /\ Head(str) \in Whitespace THEN TrimStart(Tail(str)) ELSE str

RECURSIVE TrimEnd(_)
TrimEnd(str) ==
    IF str # <<>> /\ str[Len(str)] \in Whitespace THEN TrimEnd(SubSeq(str, 1, Len(str) - 1)) ELSE str

\* str::trim
Trim(str) == TrimEnd(TrimStart(str))

DigitChars == <<"0", "1", "2", "3", "4", "5", "6", "7", "8", "9">>

IsDigit(c) == \E d \in 1..10 : DigitChars[d] = c

DigitValue(c) == (CHOOSE d \in 1..10 : DigitChars[d] = c) - 1

RECURSIVE ParseDigits(_, _)
ParseDigits(str, acc) ==
    IF str = <<>> THEN acc ELSE ParseDigits(Tail(str), 10 * acc + DigitValue(Head(str)))

\* str::parse::<T>() on the lines typed here: a non-empty run of decimal digits.
Parse(str) ==
    IF str # <<>> /\ \A i \in 1..Len(str) : IsDigit(str[i])
    THEN [ok |-> TRUE, value |-> ParseDigits(str, 0)]
    ELSE [ok |-> FALSE, value |-> 0]

\* The lines typed at the prompt, as read_line gives them.
Lines ==
    { <<"7", "\n">>, <<" ", "8", " ", "\n">>, <<"1", "2", "\n">>, <<"x", "\n">>, <<"\n">> }

LinePromptMsg == "Number: "

\* input (src/src/lib.rs): what one call does and returns. Either the flush
\* or the read fails and the error is returned, or the trimmed line is.
Input(prompt) ==
    { [events |-> <<PrintPrompt(prompt), Flush(FALSE)>>, ok |-> FALSE, value |-> <<>>],
      [events |-> <<PrintPrompt(prompt), Flush(TRUE), ReadLine(<<>>, FALSE)>>, ok |-> FALSE, value |-> <<>>] }
    \cup { [events |-> <<PrintPrompt(prompt), Flush(TRUE), ReadLine(l, TRUE)>>, ok |-> TRUE, value |-> Trim(l)] : l \in Lines }

\* The number of input() calls made so far by the running line prompt.
Attempts(log) == Cardinality({i \in 1..Len(log) : log[i].op = "print"})

\* Predicate::new
Predicate(validation_msg, validation_fn) ==
    [validation_msg |-> validation_msg, boxed_validation_fn |-> validation_fn]

\* The validation functions given to Predicate::new.
Call_fn(validation_fn, val) ==
    CASE validation_fn = "even" -> val % 2 = 0
      [] validation_fn = "odd" -> val % 2 = 1
      [] validation_fn = "small" -> val < 10

\* Predicate::validate
Validate(p, val) == Call_fn(p.boxed_validation_fn, val)

\* The message of the first predicate given to Predicate::new, whatever p is.
InvalidMsgOfFirst(p) == "Must be even."

\* Predicate::invalid_msg
InvalidMsg(p) == p.validation_msg

Predicates ==
    { Predicate("Must be even.", "even"), Predicate("Must be odd.", "odd"),
      Predicate("Must be below 10.", "small") }

ConversionErrMsg == "Not a number."

ReadErrMsg == "Something went wrong with reading the input."

\* Prompter::builder
PrompterBuilder ==
    /\ line_pc = "idle"
    /\ prompter' = [conversion_err_msg |-> ConversionErrMsg, predicates |-> <<>>]
    /\ line_pc' = "builder"
    /\ UNCHANGED <<selectVars, line_in, line_val, pred_i, line_out, line_result>>

\* PromptBuilder::pred
Pred ==
    /\ line_pc = "builder"
    /\ Len(prompter.predicates) < MaxPreds
    /\ \E predicate \in Predicates :
          prompter' = [prompter EXCEPT !.predicates = Append(@, predicate)]
    /\ UNCHANGED <<selectVars, line_pc, line_in, line_val, pred_i, line_out, line_result>>

\* PromptBuilder::build
PromptBuilderBuild ==
    /\ line_pc = "builder"
    /\ prompter' = [conversion_err_msg |-> prompter.conversion_err_msg, predicates |-> prompter.predicates]
    /\ line_pc' = "built"
    /\ UNCHANGED <<selectVars, line_in, line_val, pred_i, line_out, line_result>>

\* Prompter::prompt is called.
PrompterPrompt ==
    /\ line_pc = "built"
    /\ line_pc' = "input"
    /\ line_out' = <<>>
    /\ UNCHANGED <<selectVars, prompter, line_in, line_val, pred_i, line_result>>

\* Prompter::prompt, line 74: match input(msg), and the Err arm of lines 95-97.
PrompterInput ==
    /\ line_pc = "input"
    /\ Attempts(line_out) < MaxAttempts
    /\ \E r \in Input(LinePromptMsg) :
          IF r.ok
          THEN /\ line_out' = line_out \o r.events
               /\ line_in' = r.value
               /\ line_pc' = "parse"
          ELSE /\ line_out' = line_out \o r.events \o <<PrintlnLine(ReadErrMsg)>>
               /\ UNCHANGED <<line_in, line_pc>>
    /\ UNCHANGED <<selectVars, prompter, line_val, pred_i, line_result>>

\* Prompter::prompt, line 77: match val.trim().parse::<T>(), and the Err arm of lines 89-92.
PrompterParse ==
    /\ line_pc = "parse"
    /\ IF Parse(Trim(line_in)).ok
       THEN /\ line_val' = Parse(Trim(line_in)).value
            /\ pred_i' = 1
            /\ line_pc' = "for"
            /\ UNCHANGED line_out
       ELSE /\ line_out' = Append(line_out, PrintlnLine(prompter.conversion_err_msg))
            /\ line_pc' = "input"
            /\ UNCHANGED <<line_val, pred_i>>
    /\ UNCHANGED <<selectVars, prompter, line_in, line_result>>

\* The for loop ends after the first predicate.
PredsLeftFirstOnly(i, predicates) == i <= 1 /\ i <= Len(predicates)

\* Whether the for loop of line 80 has a predicate left.
PredsLeft(i, predicates) == i <= Len(predicates)

\* Prompter::prompt, line 85: continue 'input.
AfterRejection(i) ==
    /\ line_pc' = "input"
    /\ UNCHANGED pred_i

\* Prompter::prompt, lines 80-86: one iteration of the for loop over the predicates.
PrompterValidate ==
    /\ line_pc = "for"
    /\ PredsLeft(pred_i, prompter.predicates)
    /\ IF Validate(prompter.predicates[pred_i], line_val)
       THEN /\ line_out' = Append(line_out, ValidateEv(pred_i, TRUE))
            /\ pred_i' = pred_i + 1
            /\ UNCHANGED line_pc
       ELSE /\ line_out' = line_out \o <<ValidateEv(pred_i, FALSE), PrintlnLine(InvalidMsg(prompter.predicates[pred_i]))>>
            /\ AfterRejection(pred_i)
    /\ UNCHANGED <<selectVars, prompter, line_in, line_val, line_result>>

\* Prompter::prompt, line 88: return val.
PrompterReturn ==
    /\ line_pc = "for"
    /\ ~PredsLeft(pred_i, prompter.predicates)
    /\ line_result' = [kind |-> "ok", value |-> line_val]
    /\ line_pc' = "returned"
    /\ UNCHANGED <<selectVars, prompter, line_in, line_val, pred_i, line_out>>

\* The function prompt of src/src/lib.rs is called.
FreePrompt ==
    /\ line_pc = "idle"
    /\ line_pc' = "free_input"
    /\ line_out' = <<>>
    /\ UNCHANGED <<selectVars, prompter, line_in, line_val, pred_i, line_result>>

FreeInvalidMsg == "Invalid."

\* prompt, line 37: if let Ok(s) = input(prompt); otherwise line 43.
FreeInput ==
    /\ line_pc = "free_input"
    /\ Attempts(line_out) < MaxAttempts
    /\ \E r \in Input(LinePromptMsg) :
          IF r.ok
          THEN /\ line_out' = line_out \o r.events
               /\ line_in' = r.value
               /\ line_pc' = "free_parse"
          ELSE /\ line_out' = line_out \o r.events \o <<PrintlnLine(FreeInvalidMsg)>>
               /\ UNCHANGED <<line_in, line_pc>>
    /\ UNCHANGED <<selectVars, prompter, line_val, pred_i, line_result>>

\* prompt, lines 38-40: if let Ok(val) = s.trim().parse::<T>() return val; otherwise line 43.
FreeParse ==
    /\ line_pc = "free_parse"
    /\ IF Parse(Trim(line_in)).ok
       THEN /\ line_val' = Parse(Trim(line_in)).value
            /\ line_result' = [kind |-> "ok", value |-> Parse(Trim(line_in)).value]
            /\ line_pc' = "returned"
            /\ UNCHANGED line_out
       ELSE /\ line_out' = Append(line_out, PrintlnLine(FreeInvalidMsg))
            /\ line_pc' = "free_input"
            /\ UNCHANGED <<line_val, line_result>>
    /\ UNCHANGED <<selectVars, prompter, line_in, pred_i>>

NoPrompter == [conversion_err_msg |-> "", predicates |-> <<>>]

NoLineResult == [kind |-> "none", value |-> 0]

\* No line prompt is being built or running.
LineIdle ==
    /\ prompter = NoPrompter
    /\ line_pc = "idle"
    /\ line_in = <<>>
    /\ line_val = 0
    /\ pred_i = 0
    /\ line_out = <<>>
    /\ line_result = NoLineResult

\* A Select on which prompt has not been called: the locals of prompt hold
\* what the call will first give them.
Unprompted(c, calls) ==
    /\ LineIdle
    /\ built = calls
    /\ cfg = c
    /\ earlier = FALSE
    /\ msg = <<>>
    /\ pc = "idle"
    /\ selected_index = c.default_index
    /\ prefix_char_count = 0
    /\ tail_str = <<>>
    /\ split_index = 0
    /\ s = <<>>
    /\ out = <<>>
    /\ result = NoResult

\* The same, for a Select made by new, padding, default_opt, aligned and clear_after.
Idle(c) == Unprompted(c, ChainOf(c))

\* A Select as the builder methods of lines 66-131 can make it.
Selects(maxN, paddings, aligneds) ==
    { Select(d, p, a, x, c, o) :
        d \in DefaultIndexes(maxN), p \in paddings, a \in aligneds,
        x \in Prefixes, c \in BOOLEAN, o \in OptionLists(maxN) }

Init == \E c \in Selects(MaxOpts, {0, 1}, BOOLEAN) : Idle(c)

\* Selects with is_aligned set and up to MaxAlignedOpts options, the default
\* index any index of the list or the first past it.
AlignedSelects ==
    { Select(USize(d), 0, TRUE, x, c, InputOptions(n)) :
        d \in 0..MaxAlignedOpts, x \in Prefixes, c \in BOOLEAN, n \in 0..MaxAlignedOpts }

InitAligned == \E c \in AlignedSelects : c.default_index.lo <= Len(c.options) /\ Idle(c)

HelloInput == <<ESC, "[", "3", "1", "m", "H", "E", "L", "L", "O", ESC, "[", "0", "m">>

\* The strings decolored is run on in SpecDecolor.
DecolorInputs == StringsUpTo({ESC, "m", "A"}, MaxLen) \cup {HelloInput, DanglingPrefix}

\* prompt on Select::new(x, vec![]) up to the end of line 145.
InitDecolor == \E x \in DecolorInputs : Idle(SelectNew(x, <<>>))

NextDecolor ==
    \/ Prompt
    \/ DecoloredFind
    \/ DecoloredStrip
    \/ DecoloredUnterminated
    \/ DecoloredReturn

Next ==
    \/ Prompt
    \/ DecoloredFind
    \/ DecoloredStrip
    \/ DecoloredUnterminated
    \/ DecoloredReturn
    \/ PrintHeader
    \/ LoopClear
    \/ PrintRows
    \/ LoopHide
    \/ ReadKeyFails
    \/ KeyArrowUp
    \/ KeyArrowDown
    \/ KeyOther
    \/ KeyEnter
    \/ ConfirmClear
    \/ ConfirmShow

Spec == Init /\ [][Next]_vars

\* Select::new on a prefix and a list of up to two options, no builder call made yet.
InitBuild ==
    \E x \in PrefixArgs, o \in OptionLists(2) :
       Unprompted(SelectNew(x, o), [prefix |-> x, options |-> o, calls |-> <<>>])

NextBuild ==
    \/ BuildOpt
    \/ BuildPadding
    \/ BuildPrefix
    \/ BuildAligned
    \/ BuildClearAfter
    \/ BuildDefaultOpt

SpecBuild == InitBuild /\ [][NextBuild]_vars

\* No Prompter built yet and no line prompt called; the Select plays no part.
InitLine == Idle(SelectNew(PlainPrefix, <<>>))

NextPrompter ==
    \/ PrompterBuilder
    \/ Pred
    \/ PromptBuilderBuild
    \/ PrompterPrompt
    \/ PrompterInput
    \/ PrompterParse
    \/ PrompterValidate
    \/ PrompterReturn

SpecPrompter == InitLine /\ [][NextPrompter]_vars

NextFreePrompt ==
    \/ FreePrompt
    \/ FreeInput
    \/ FreeParse

SpecFreePrompt == InitLine /\ [][NextFreePrompt]_vars

SpecAligned == InitAligned /\ [][Next]_vars

\* Selects of up to MaxFrameOpts options, the default index any index of the
\* list or the first past it.
FrameSelects ==
    { Select(USize(d), p, a, x, c, InputOptions(n)) :
        d \in 0..MaxFrameOpts, p \in {0, 2}, a \in BOOLEAN,
        x \in Prefixes, c \in BOOLEAN, n \in 0..MaxFrameOpts }

InitFrames == \E c \in FrameSelects : c.default_index.lo <= Len(c.options) /\ Idle(c)

SpecFrames == InitFrames /\ [][Next]_vars

\* Selects of one or two options with the default index 0 and no padding.
InitProgress ==
    \E x \in Prefixes, c \in BOOLEAN, n \in 1..2 :
       Idle(Select(USize(0), 0, FALSE, x, c, InputOptions(n)))

\* The steps of prompt that wait for nothing: all but the call itself and
\* the key read, which waits for the terminal to deliver a key.
Internal ==
    \/ DecoloredFind
    \/ DecoloredStrip
    \/ DecoloredUnterminated
    \/ DecoloredReturn
    \/ PrintHeader
    \/ LoopClear
    \/ PrintRows
    \/ LoopHide
    \/ ConfirmClear
    \/ ConfirmShow

\* prompt runs on: a thread that can take a step does take one.
SpecProgress == InitProgress /\ [][Next]_vars /\ WF_vars(Internal)

SpecDecolor == InitDecolor /\ [][NextDecolor]_vars

-----------------------------------------------------------------------------
\* What the properties read off out.

\* The keys read so far in this invocation, in order.
Keys(log) ==
    LET reads == SelectSeq(log, LAMBDA e : e.op = "read_key" /\ e.ok)
    IN  [i \in 1..Len(reads) |-> reads[i].key]

Count(log, key) == Cardinality({i \in 1..Len(log) : log[i].op = "read_key" /\ log[i].key = key})

\* The position in log of the read of Enter, 0 when Enter was not read.
EnterAt(log) ==
    IF \E i \in 1..Len(log) : log[i].key = "Enter"
    THEN CHOOSE i \in 1..Len(log) : log[i].key = "Enter"
    ELSE 0

Positions(log, op) == {i \in 1..Len(log) : log[i].op = op}

\* show_cursor was called after the last hide_cursor.
ShownAfterLastHide(log) ==
    \E j \in Positions(log, "show_cursor") : \A i \in Positions(log, "hide_cursor") : i < j

\* The text of the last n lines written, when the last n operations are println.
LastLines(log, n) == [i \in 1..n |-> log[Len(log) - n + i].text]

\* The text outside the escape sequences of str, read one character at a
\* time from position i on; inside says whether position i is within a sequence.
RECURSIVE Visible(_, _, _)
Visible(str, i, inside) ==
    IF i > Len(str) THEN <<>>
    ELSE IF inside THEN Visible(str, i + 1, str[i] # "m")
    ELSE IF str[i] = ESC THEN Visible(str, i + 1, TRUE)
    ELSE <<str[i]>> \o Visible(str, i + 1, FALSE)

\* Every introducer of str has an 'm' after it.
AllTerminated(str) ==
    \A i \in 1..Len(str) : str[i] = ESC => \E j \in (i + 1)..Len(str) : str[j] = "m"

HasEsc(str) == \E i \in 1..Len(str) : str[i] = ESC

-----------------------------------------------------------------------------
\* C1: with N >= 1 options and default_index in [0, N), at every key read
\* the selection index is in [0, N) and is (default_index + downs - ups) mod N,
\* downs and ups counting the arrow keys read so far in the invocation.
C1_IndexCongruent ==
    (pc = "loop_read" /\ N >= 1 /\ IsSmall(cfg.default_index) /\ cfg.default_index.lo < N)
    => /\ IsSmall(selected_index)
       /\ selected_index.lo \in 0..(N - 1)
       /\ selected_index.lo =
            (cfg.default_index.lo + Count(out, "ArrowDown") - Count(out, "ArrowUp")) % N

\* Three options, default 0, two Arrow-ups and an Arrow-down read: index 2.
C1_Witness ==
    /\ pc = "loop_read"
    /\ N = 3
    /\ cfg.default_index = USize(0)
    /\ Count(out, "ArrowUp") = 2
    /\ Count(out, "ArrowDown") = 1
    /\ selected_index = USize(2)

\* C2: prompt returns a value only in response to Enter, and the value is
\* options[i].value for the selection index i current when Enter is read;
\* [Arrow-down, Enter] on [(Up,1),(Down,2)] with default 0 returns 2, and
\* [Arrow-up, Enter] on 4 options with default 0 returns the last option's value.
C2_ReturnsChosenOnEnter ==
    /\ result.kind = "Ok"
       => /\ pc = "returned"
          /\ Len(Keys(out)) >= 1
          /\ Keys(out)[Len(Keys(out))] = "Enter"
          /\ Count(out, "Enter") = 1
          /\ IsSmall(selected_index) /\ selected_index.lo < N
          /\ result.value = cfg.options[selected_index.lo + 1].value
    /\ (pc = "returned" /\ result.kind # "Err" /\ cfg.default_index = USize(0)
        /\ cfg.options = <<SelectOpt(<<"U", "p">>, None, 1), SelectOpt(<<"D", "o", "w", "n">>, None, 2)>>
        /\ Keys(out) = <<"ArrowDown", "Enter">>)
       => result = OkResult(2)
    /\ (pc = "returned" /\ result.kind # "Err" /\ cfg.default_index = USize(0)
        /\ N = 4 /\ Keys(out) = <<"ArrowUp", "Enter">>)
       => result = OkResult(cfg.options[4].value)

\* Scenario A has returned 2.
C2_Witness ==
    /\ pc = "returned"
    /\ cfg.default_index = USize(0)
    /\ cfg.options = <<SelectOpt(<<"U", "p">>, None, 1), SelectOpt(<<"D", "o", "w", "n">>, None, 2)>>
    /\ Keys(out) = <<"ArrowDown", "Enter">>
    /\ result = OkResult(2)

\* C3: once Enter is read with clear_after_response set, prompt asks for
\* exactly one erase after the key read, of options.len() + padding + 1 lines
\* (5 for 3 options and padding 1), and asks before it shows the cursor;
\* without clear_after_response nothing is erased after Enter.  (A call that
\* aborts at the lookup, C10, erases nothing.)
C3_EraseOnConfirm ==
    LET e == EnterAt(out)
        erases == {i \in Positions(out, "clear_last_lines") : i > e}
        shows == {j \in Positions(out, "show_cursor") : j > e}
    IN  e # 0 =>
          /\ ~cfg.clear_after_response => erases = {}
          /\ cfg.clear_after_response =>
                /\ erases \subseteq {e + 1}
                /\ \A i \in erases : out[i].n = N + cfg.padding + 1
                /\ \A j \in shows : \E i \in erases : i < j
                /\ pc = "returned" => Cardinality(erases) = 1
                /\ (pc = "returned" /\ N = 3 /\ cfg.padding = 1)
                   => \A i \in erases : out[i].n = 5

\* Scenario C has returned: 5 lines erased, then the cursor shown.
C3_Witness ==
    /\ pc = "returned"
    /\ result.kind = "Ok"
    /\ N = 3
    /\ cfg.padding = 1
    /\ cfg.clear_after_response
    /\ Len(out) >= 3
    /\ out[Len(out) - 2] = ReadKeyEv("Enter", TRUE)
    /\ out[Len(out) - 1] = ClearLastLines(5, TRUE)
    /\ out[Len(out)] = ShowCursor(TRUE)

\* C4 as stated: on every return that follows the reading of Enter,
\* show_cursor has been called after the last hide_cursor.
C4_ShownOnEveryReturnAfterEnter ==
    (pc = "returned" /\ EnterAt(out) # 0) => ShownAfterLastHide(out)

\* C4 amended: on every return that follows the reading of Enter, other
\* than the return of the error of the erase of line 212, show_cursor has
\* been called after the last hide_cursor; when a value is returned the call
\* succeeded and is the last terminal operation, so the cursor is visible.
C4_ShownUnlessEraseFails ==
    (pc = "returned" /\ EnterAt(out) # 0)
    => /\ result # ErrResult("clear_last_lines") => ShownAfterLastHide(out)
       /\ result = ErrResult("clear_last_lines") => Positions(out, "show_cursor") = {}
       /\ result.kind = "Ok" => out[Len(out)] = ShowCursor(TRUE)

\* A value is returned after the erase of a confirm, the cursor shown last.
C4_Witness ==
    /\ pc = "returned"
    /\ result.kind = "Ok"
    /\ cfg.clear_after_response
    /\ Positions(out, "hide_cursor") # {}
    /\ out[Len(out)] = ShowCursor(TRUE)

\* C5: a terminal operation that fails is the last thing the invocation does
\* to the terminal, and prompt returns its error: no retry, no further frame,
\* no erase and no show_cursor follow it.
C5_ErrorEndsPrompt ==
    /\ \A i \in 1..Len(out) :
          ~out[i].ok => /\ i = Len(out)
                        /\ pc = "returned"
                        /\ result = ErrResult(out[i].op)
    /\ result.kind = "Err" => Len(out) >= 1 /\ ~out[Len(out)].ok

\* The erase after Enter failed: it is the last operation, the cursor is not shown.
C5_Witness ==
    /\ pc = "returned"
    /\ result = ErrResult("clear_last_lines")
    /\ EnterAt(out) # 0
    /\ ~out[Len(out)].ok
    /\ Positions(out, "show_cursor") = {}

\* C6: when the introducer found has no 'm' after it, decolored stops
\* stripping there and returns the text kept so far followed by the
\* remaining tail, the introducer included.
C6_StopsAtDanglingIntroducer ==
    [][(pc = "decolored_if" /\ Find(Suffix(tail_str, split_index), "m") = 0)
       => (pc' = "print_header" /\ s' = s \o tail_str /\ prefix_char_count' = Len(s'))]_vars

\* C7: for a string in which every introducer has an 'm' after it,
\* decolored returns the input without the spans from an introducer through
\* the first 'm' after it, the other characters in their order, so without
\* any 0x1B; a string with no 0x1B is returned as it is, and the width of
\* "\x1B[31mHELLO\x1B[0m" is 5.
C7_StripsTerminatedSpans ==
    (pc = "print_header" /\ AllTerminated(cfg.prefix))
    => /\ s = Visible(cfg.prefix, 1, FALSE)
       /\ ~HasEsc(s)
       /\ prefix_char_count = Len(s)
       /\ ~HasEsc(cfg.prefix) => s = cfg.prefix
       /\ cfg.prefix = HelloInput => s = <<"H", "E", "L", "L", "O">> /\ prefix_char_count = 5

C7_Witness ==
    /\ pc = "print_header"
    /\ cfg.prefix = HelloInput
    /\ prefix_char_count = 5

\* C8: with is_aligned set, in every frame each row that is not the selected
\* one is display_text after as many spaces as the prefix has characters
\* outside escape sequences; with no escape sequence in the prefix the text
\* of those rows starts where the selected row's text starts, after
\* Len(prefix) characters.  Checked for 1 to MaxAlignedOpts options.
C8_AlignedRows ==
    (pc = "loop_hide" /\ cfg.is_aligned)
    => LET rows == LastLines(out, N)
           width == Len(Visible(cfg.prefix, 1, FALSE))
       IN  \A i \in 1..N :
              LET o == cfg.options[i]
              IN  /\ selected_index # USize(i - 1)
                     => rows[i] = Spaces(width) \o o.display_text
                  /\ ~HasEsc(cfg.prefix) =>
                        /\ selected_index # USize(i - 1)
                           => rows[i] = Spaces(Len(cfg.prefix)) \o o.display_text
                        /\ selected_index = USize(i - 1)
                           => rows[i] = cfg.prefix
                                 \o (IF o.selected_text.some THEN o.selected_text.text
                                     ELSE o.display_text)

\* A frame of ten options after a key, the last option selected.
C8_Witness ==
    /\ pc = "loop_hide"
    /\ cfg.is_aligned
    /\ N = 10
    /\ cfg.prefix = PlainPrefix
    /\ Len(Keys(out)) >= 1
    /\ selected_index = USize(9)
    /\ LastLines(out, N)[1] = <<" ", " ", "U", "p">>

\* C9: prompt leaves the Select as it is, and every invocation, a later one
\* on the same Select included, starts at default_index: until a key is read
\* the selection index is default_index and the first frame is the one for it.
C9_StartsAtDefault ==
    /\ [][cfg' = cfg]_vars
    /\ []((pc \notin {"idle"} /\ Keys(out) = <<>>)
          => /\ selected_index = cfg.default_index
             /\ pc = "loop_hide"
                => LastLines(out, N)
                     = [i \in 1..N |-> Row(cfg, cfg.default_index, prefix_char_count, i)])

\* A later invocation has drawn its first frame.
C9_Witness ==
    /\ earlier
    /\ pc = "loop_hide"
    /\ Keys(out) = <<>>
    /\ N = 3
    /\ cfg.default_index = USize(1)
    /\ selected_index = USize(1)

\* C10: when Enter is read with a selection index that is no index of
\* options, prompt panics (it returns neither a value nor an error); with
\* default_index < N the call never panics, whatever keys are read.
C10_PanicsOnBadIndex ==
    /\ (EnterAt(out) # 0 /\ ~InBounds(selected_index, cfg.options))
       => pc = "panicked" /\ result = Panic("expect")
    /\ InBounds(cfg.default_index, cfg.options) => pc # "panicked"

\* Enter on an empty list.
C10_Witness ==
    /\ N = 0
    /\ Keys(out) = <<"Enter">>
    /\ pc = "panicked"
    /\ result = Panic("expect")

-----------------------------------------------------------------------------
\* The builder (SpecBuild).

\* The positions of the calls of one method in a history of builder calls.
CallsOf(calls, op) == {i \in 1..Len(calls) : calls[i].op = op}

Last(S) == CHOOSE i \in S : \A j \in S : j <= i

RECURSIVE OptsOf(_)
\* The options given to opt in a history of builder calls, in call order.
OptsOf(calls) ==
    IF calls = <<>> THEN <<>>
    ELSE (IF Head(calls).op = "opt" THEN <<Head(calls).option>> ELSE <<>>) \o OptsOf(Tail(calls))

\* The Select a history should give: every field from the last call that
\* sets it, or from Select::new when no call sets it.
ExpectedSelect(h) ==
    [default_index |-> IF CallsOf(h.calls, "default_opt") = {} THEN USize(0)
                       ELSE h.calls[Last(CallsOf(h.calls, "default_opt"))].index,
     padding |-> IF CallsOf(h.calls, "padding") = {} THEN 0
                 ELSE h.calls[Last(CallsOf(h.calls, "padding"))].n,
     is_aligned |-> CallsOf(h.calls, "aligned") # {},
     prefix |-> IF CallsOf(h.calls, "prefix") = {} THEN h.prefix
                ELSE h.calls[Last(CallsOf(h.calls, "prefix"))].text,
     clear_after_response |-> CallsOf(h.calls, "clear_after") # {},
     options |-> h.options \o OptsOf(h.calls)]

\* The calls a builder step can make.
BuilderCalls ==
    {OptCall(o) : o \in OptArgs} \cup {PaddingCall(n) : n \in PaddingArgs}
    \cup {PrefixCall(x) : x \in PrefixArgs} \cup {AlignedCall, ClearAfterCall}
    \cup {DefaultOptCall(i) : i \in DefaultOptArgs}

\* What a call returns on the Select c.
Apply(c, call) ==
    CASE call.op = "opt" -> Opt(c, call.option)
      [] call.op = "padding" -> Padding(c, call.n)
      [] call.op = "prefix" -> Prefix(c, call.text)
      [] call.op = "aligned" -> Aligned(c)
      [] call.op = "clear_after" -> ClearAfter(c)
      [] call.op = "default_opt" -> DefaultOpt(c, call.index)

\* The field a method sets.
FieldOf(op) ==
    CASE op = "opt" -> "options"
      [] op = "padding" -> "padding"
      [] op = "prefix" -> "prefix"
      [] op = "aligned" -> "is_aligned"
      [] op = "clear_after" -> "clear_after_response"
      [] op = "default_opt" -> "default_index"

Fields == {"default_index", "padding", "is_aligned", "prefix", "clear_after_response", "options"}

\* C11: Select::new(prefix, options) gives default_index 0, padding 0, not
\* aligned, no clearing after the response, and the prefix and the option
\* list exactly as given, in the given order.
C11_NewDefaults ==
    built.calls = <<>> =>
       /\ cfg.default_index = USize(0)
       /\ cfg.padding = 0
       /\ cfg.is_aligned = FALSE
       /\ cfg.clear_after_response = FALSE
       /\ cfg.prefix = built.prefix
       /\ cfg.options = built.options

\* Select::new has acted on a colored prefix and two options.
C11_Witness ==
    /\ built = [prefix |-> ColoredPrefix, options |-> InputOptions(2), calls |-> <<>>]
    /\ cfg.options = <<InputOpt(1), InputOpt(2)>>
    /\ cfg.padding = 0

\* C12: every mutator changes its own field only (opt appends one option at
\* the end, keeping the others in order), so the Select holds, field by
\* field, what the last call on that field gave, and two calls that set
\* different fields give the same Select in either order.
C12_MutatorsIndependent ==
    /\ cfg = ExpectedSelect(built)
    /\ \A a \in BuilderCalls :
          /\ \A f \in Fields \ {FieldOf(a.op)} : Apply(cfg, a)[f] = cfg[f]
          /\ a.op = "opt" => Apply(cfg, a).options = cfg.options \o <<a.option>>
          /\ \A b \in BuilderCalls :
                a.op # b.op => Apply(Apply(cfg, a), b) = Apply(Apply(cfg, b), a)

\* default_opt, then opt, then padding were called on a Select of one option.
C12_Witness ==
    /\ built.options = InputOptions(1)
    /\ built.calls = <<DefaultOptCall(USize(3)), OptCall(InputOpt(4)), PaddingCall(2)>>
    /\ cfg.default_index = USize(3)
    /\ cfg.options = <<InputOpt(1), InputOpt(4)>>
    /\ cfg.padding = 2

-----------------------------------------------------------------------------
\* The line prompts (SpecPrompter, SpecFreePrompt).

\* The positions in the log where an attempt starts: input() printing the prompt.
Starts(log) == {i \in 1..Len(log) : log[i].op = "print"}

\* The last position of the attempt that starts at position i.
AttemptEnd(log, i) ==
    IF \E j \in Starts(log) : j > i
    THEN (CHOOSE j \in Starts(log) : j > i /\ \A k \in Starts(log) : k > i => j <= k) - 1
    ELSE Len(log)

Attempt(log, i) == SubSeq(log, i, AttemptEnd(log, i))

IsOp(op, e) == e.op = op
IsPrintln(e) == IsOp("println", e)
IsValidate(e) == IsOp("validate", e)
IsGoodRead(e) == IsOp("read_line", e) /\ e.ok

\* What an attempt printed with println, what it validated, the line it read.
Printed(a) == SelectSeq(a, IsPrintln)
Validated(a) == SelectSeq(a, IsValidate)
ReadOk(a) == SelectSeq(a, IsGoodRead) # <<>>
LineOf(a) == SelectSeq(a, IsGoodRead)[1].text

\* The attempts that are over and did not return a value.
FailedAttempts ==
    {i \in Starts(line_out) :
        \/ AttemptEnd(line_out, i) < Len(line_out)
        \/ line_pc \in {"input", "free_input"}}

\* The first predicate, in the order of the pred() calls, that rejects val; 0 if none does.
FirstRejecting(predicates, val) ==
    IF \A k \in 1..Len(predicates) : Validate(predicates[k], val) THEN 0
    ELSE CHOOSE k \in 1..Len(predicates) :
            /\ ~Validate(predicates[k], val)
            /\ \A j \in 1..(k - 1) : Validate(predicates[j], val)

\* C13: Prompter::prompt returns v only when the line of the current attempt
\* converts to v and every predicate accepts v; an attempt that failed (read,
\* conversion or predicate) is followed by a new attempt, and the call has
\* returned nothing until an attempt succeeds.
C13_ReturnsOnlyValidated ==
    /\ (line_pc = "returned") = (line_result.kind = "ok")
    /\ line_result.kind = "ok" =>
          \E i \in Starts(line_out) :
             /\ AttemptEnd(line_out, i) = Len(line_out)
             /\ ReadOk(Attempt(line_out, i))
             /\ Parse(Trim(LineOf(Attempt(line_out, i)))) = [ok |-> TRUE, value |-> line_result.value]
             /\ \A k \in 1..Len(prompter.predicates) : Validate(prompter.predicates[k], line_result.value)
             /\ Printed(Attempt(line_out, i)) = <<>>
    /\ \A i \in Starts(line_out) :
          Printed(Attempt(line_out, i)) # <<>> =>
             /\ line_result.kind = "ok" => AttemptEnd(line_out, i) < Len(line_out)
             /\ AttemptEnd(line_out, i) = Len(line_out) => line_pc = "input"

\* The line " 8 " is returned as 8 by a Prompter of two predicates after a
\* failed flush and a rejected 7.
C13_Witness ==
    /\ line_pc = "returned"
    /\ line_result = [kind |-> "ok", value |-> 8]
    /\ Len(prompter.predicates) = 2
    /\ Attempts(line_out) = 3
    /\ \E i \in 1..Len(line_out) : line_out[i].op = "flush" /\ ~line_out[i].ok
    /\ \E i \in 1..Len(line_out) : line_out[i].op = "validate" /\ ~line_out[i].ok
    /\ line_out[Len(line_out) - 2] = ReadLine(<<" ", "8", " ", "\n">>, TRUE)

\* What an attempt that read a line and failed prints and validates: the
\* conversion error message when the line does not convert, otherwise the
\* message of the first rejecting predicate, after validating the predicates
\* up to that one and no other.
FailsAsDocumented(a) ==
    /\ ReadOk(a)
    /\ Len(Printed(a)) = 1
    /\ IF ~Parse(Trim(LineOf(a))).ok
       THEN /\ Printed(a)[1].text = prompter.conversion_err_msg
            /\ Validated(a) = <<>>
       ELSE LET val == Parse(Trim(LineOf(a))).value
                k == FirstRejecting(prompter.predicates, val)
            IN  /\ k > 0
                /\ Printed(a)[1].text = prompter.predicates[k].validation_msg
                /\ Validated(a) = [j \in 1..k |-> ValidateEv(j, j < k)]

\* C14 as stated: every failed attempt prints exactly one message, the
\* conversion error message or the message of the first rejecting predicate.
C14_OneMessageConversionOrPredicate ==
    \A i \in FailedAttempts : FailsAsDocumented(Attempt(line_out, i))

\* C14: every failed attempt prints exactly one message: the read error
\* message when input() failed, and otherwise the conversion error message
\* when the conversion fails or else the message of the first rejecting
\* predicate in pred() order; no predicate after that one is evaluated.
C14_OneMessagePerFailedAttempt ==
    \A i \in FailedAttempts :
       IF ReadOk(Attempt(line_out, i))
       THEN FailsAsDocumented(Attempt(line_out, i))
       ELSE /\ Printed(Attempt(line_out, i)) = <<PrintlnLine(ReadErrMsg)>>
            /\ Validated(Attempt(line_out, i)) = <<>>

\* A Prompter with the predicates even, small has had a failed read, then 12
\* (rejected by the second predicate), then 7 (rejected by the first).
C14_Witness ==
    /\ line_pc = "input"
    /\ prompter.predicates = <<Predicate("Must be even.", "even"), Predicate("Must be below 10.", "small")>>
    /\ Printed(line_out) = <<PrintlnLine(ReadErrMsg), PrintlnLine("Must be below 10."), PrintlnLine("Must be even.")>>
    /\ Validated(line_out) = <<ValidateEv(1, TRUE), ValidateEv(2, FALSE), ValidateEv(1, FALSE)>>

\* C15: an error of the input() call made by the function prompt ends the
\* call, which returns that error to its caller.
C15_PropagatesInputErrors ==
    \A i \in 1..Len(line_out) :
       (line_out[i].op \in {"flush", "read_line"} /\ ~line_out[i].ok) =>
          /\ i = Len(line_out)
          /\ line_result.kind = "err"

-----------------------------------------------------------------------------
\* Progress of Select::prompt (SpecProgress).

\* prompt is between its start, or a key other than Enter, and the next key read.
BeforeKeyRead ==
    pc \in {"decolored_while", "decolored_if", "print_header", "loop_clear", "loop_rows", "loop_hide"}

\* C16: with at least one option, whatever the prefix, prompt gets from its
\* start and from every key other than Enter to the next key read, unless a
\* terminal operation fails on the way.
C16_ReachesKeyRead ==
    (N >= 1 /\ BeforeKeyRead) ~> (pc = "loop_read" \/ result.kind = "Err")

-----------------------------------------------------------------------------
\* The frames of Select::prompt (SpecFrames).

RECURSIVE ErasedLines(_)
\* The number of lines the log asked the terminal to erase.
ErasedLines(log) ==
    IF log = <<>> THEN 0
    ELSE (IF Head(log).op = "clear_last_lines" THEN Head(log).n ELSE 0) + ErasedLines(Tail(log))

\* Lines emitted minus lines asked to erase.
Balance(log) == Cardinality(Positions(log, "println")) - ErasedLines(log)

\* The length of the initial output and of one frame with its key read.
HeaderLen == cfg.padding + 1 + N
FrameLen == N + 3

\* The erases of the redraw loop: every erase but the one that follows Enter.
RedrawErases(log) ==
    {i \in Positions(log, "clear_last_lines") : EnterAt(log) = 0 \/ i < EnterAt(log)}

\* C17: at every key read the lines emitted minus the lines asked to erase
\* are padding + 1 + N; the output starts with padding blank lines, the
\* header and N blank lines; every redraw erases N lines, which leaves the
\* header and the padding (padding + 1 lines), and N rows follow it; after a
\* confirm with clear_after_response the balance is 0.
C17_LineBalance ==
    /\ pc = "loop_read" => Balance(out) = cfg.padding + 1 + N
    /\ out # <<>> =>
          /\ Len(out) >= HeaderLen
          /\ SubSeq(out, 1, HeaderLen) =
                [k \in 1..HeaderLen |-> IF k = cfg.padding + 1 THEN Println(msg) ELSE Println(<<>>)]
    /\ \A i \in RedrawErases(out) :
          /\ out[i].n = N
          /\ Balance(SubSeq(out, 1, i)) = cfg.padding + 1
          /\ Len(out) >= i + N => \A j \in 1..N : out[i + j].op = "println"
    /\ (result.kind = "Ok" /\ cfg.clear_after_response) => Balance(out) = 0
    /\ (result.kind = "Ok" /\ ~cfg.clear_after_response) => Balance(out) = cfg.padding + 1 + N

\* Three options under two padding lines are at their third key read.
C17_Witness ==
    /\ pc = "loop_read"
    /\ cfg.padding = 2
    /\ N = 3
    /\ KeysRead(out) = 2
    /\ Cardinality(Positions(out, "println")) = 15
    /\ ErasedLines(out) = 9

\* The row of option i (1-based) in a frame drawn for the selection sel.
ExpectedRow(i, sel) ==
    IF sel = USize(i - 1)
    THEN cfg.prefix \o (IF cfg.options[i].selected_text.some
                        THEN cfg.options[i].selected_text.text
                        ELSE cfg.options[i].display_text)
    ELSE (IF cfg.is_aligned THEN Spaces(Len(Visible(cfg.prefix, 1, FALSE))) ELSE <<>>)
         \o cfg.options[i].display_text

\* The operations of the frame whose key read is at position i of the log.
FrameBefore(log, i) == SubSeq(log, i - N - 2, i - 1)

\* C18: every key read comes right after one erase of N lines, N rows and
\* one hide-cursor, in this order, that frame starting right after the
\* initial output or the previous key read; at the key read the rows are
\* those of the current selection index, in index order.
C18_FrameThenKey ==
    /\ \A i \in Positions(out, "read_key") :
          /\ i - FrameLen >= HeaderLen
          /\ i - FrameLen = HeaderLen \/ out[i - FrameLen].op = "read_key"
          /\ FrameBefore(out, i)[1] = ClearLastLines(N, TRUE)
          /\ \A j \in 1..N : FrameBefore(out, i)[1 + j].op = "println"
          /\ FrameBefore(out, i)[N + 2] = HideCursor(TRUE)
    /\ pc = "loop_read" =>
          /\ Len(out) >= HeaderLen + N + 2
          /\ SubSeq(out, Len(out) - N - 1, Len(out)) =
                <<ClearLastLines(N, TRUE)>>
                \o [j \in 1..N |-> Println(ExpectedRow(j, selected_index))]
                \o <<HideCursor(TRUE)>>
          /\ Len(out) - N - 2 = HeaderLen \/ out[Len(out) - N - 2].op = "read_key"

\* The third frame of three options has been drawn and the cursor hidden,
\* the selection on the second option.
C18_Witness ==
    /\ pc = "loop_read"
    /\ N = 3
    /\ selected_index = USize(1)
    /\ Keys(out) = <<"ArrowDown", "Other">>
    /\ out[Len(out)] = HideCursor(TRUE)

\* The rows of the frame last drawn, once its rows are all out.
LastRows == [j \in 1..N |-> out[Len(out) - N - (IF pc = "loop_read" THEN 1 ELSE 0) + j].text]

CarriesPrefix(row) ==
    Len(row) >= Len(cfg.prefix) /\ SubSeq(row, 1, Len(cfg.prefix)) = cfg.prefix

\* C19: in every frame row i is prefix + selected_text for the selected
\* option when it has one, prefix + display_text when it has none, and
\* display_text otherwise (after spaces when aligned); the rows are in index
\* order, and with the selection index in [0, N) the row at that index is
\* the only one that carries the prefix.
C19_RowContents ==
    pc \in {"loop_hide", "loop_read"} =>
       /\ \A j \in 1..N : LastRows[j] = ExpectedRow(j, selected_index)
       /\ \A j \in 1..N :
             LastRows[j] =
                IF selected_index = USize(j - 1) /\ cfg.options[j].selected_text.some
                   THEN cfg.prefix \o cfg.options[j].selected_text.text
                ELSE IF selected_index = USize(j - 1)
                   THEN cfg.prefix \o cfg.options[j].display_text
                ELSE IF ~cfg.is_aligned
                   THEN cfg.options[j].display_text
                ELSE Spaces(Len(LastRows[j]) - Len(cfg.options[j].display_text)) \o cfg.options[j].display_text
       /\ InBounds(selected_index, cfg.options) =>
             {j \in 1..N : CarriesPrefix(LastRows[j])} = {selected_index.lo + 1}

\* A frame of three options, not aligned, with the third selected: the row
\* of the third option is the prefix and its selected text.
C19_Witness ==
    /\ pc = "loop_read"
    /\ N = 3
    /\ ~cfg.is_aligned
    /\ cfg.prefix = ColoredPrefix
    /\ selected_index = USize(2)
    /\ LastRows = << <<"U", "p">>, <<"D", "o", "w", "n">>, ColoredPrefix \o DisplayText(3) \o <<"!">> >>

\* The rows of the frame that follows the key read at position i of the log,
\* and of the frame that precedes it.
RowsAfter(log, i) == [j \in 1..N |-> log[i + 1 + j].text]
RowsBefore(log, i) == [j \in 1..N |-> log[i - N - 2 + j].text]

\* C20: a key other than the arrows and Enter leaves the selection index as
\* it is and prompt goes on to the next frame without returning, and the
\* rows of that frame are those of the frame before the key.
C20_OtherKeyRedrawsSame ==
    /\ [][(pc = "loop_read" /\ out' = Append(out, ReadKeyEv("Other", TRUE))) =>
            (selected_index' = selected_index /\ pc' = "loop_clear" /\ result' = result)]_vars
    /\ [](\A i \in Positions(out, "read_key") :
             (out[i].key = "Other" /\ Len(out) >= i + 1 + N /\ out[i + 1].ok) =>
                RowsAfter(out, i) = RowsBefore(out, i))

\* With the selection moved off the default option, another key was read
\* and the frame drawn again.
C20_Witness ==
    /\ pc = "loop_read"
    /\ N = 3
    /\ cfg.default_index = USize(0)
    /\ selected_index = USize(1)
    /\ Keys(out) = <<"ArrowDown", "Other", "Other">>
    /\ RowsAfter(out, Len(out) - 2 * FrameLen + 1) = RowsBefore(out, Len(out) - 2 * FrameLen + 1)

-----------------------------------------------------------------------------
\* Discarded keys (SpecFrames) and out-of-range default indexes (Spec).

\* The operations that write to the terminal or ask it to erase lines.
OutputOps == {"println", "clear_last_lines", "hide_cursor", "show_cursor"}

\* C21: after the read of a key that is neither an arrow nor Enter, prompt
\* writes nothing to the terminal and asks for no erase before it reads the
\* next key.
C21_NoOutputAfterDiscardedKey ==
    \A i \in Positions(out, "read_key") :
       out[i].key = "Other" =>
          \A j \in (i + 1)..Len(out) :
             (\A k \in (i + 1)..(j - 1) : out[k].op # "read_key") => out[j].op \notin OutputOps

\* The arrow keys read so far by this call of prompt.
ArrowsRead(log) == Count(log, "ArrowUp") + Count(log, "ArrowDown")

\* C22: with at least one option and a default index past the last option,
\* once the first arrow key is read the selection index is in [0, N) and
\* prompt has not aborted, whatever the default index.
C22_FirstArrowEntersRange ==
    (N >= 1 /\ ~InBounds(cfg.default_index, cfg.options) /\ ArrowsRead(out) = 1) =>
       /\ result.kind # "panic"
       /\ InBounds(selected_index, cfg.options)

====
